---------------------------- MODULE Spec2Model ----------------------------
(***************************************************************************)
(* A model of the DDPG agent of src/mountain_car/ddpg.py.                  *)
(*                                                                         *)
(* Numbers.  The agent computes with floating-point numbers; the model     *)
(* computes with exact rationals [n |-> numerator, d |-> denominator > 0], *)
(* kept in lowest terms, so that equal values are equal records.  Only     *)
(* finite values are modelled.                                             *)
(*                                                                         *)
(* Vectors and tensors are sequences of rationals; the weights of a Keras  *)
(* model are the list get_weights() returns: a sequence of tensors.        *)
(*                                                                         *)
(* Actor, Critic, ReplayBuffer and OUNoise are imported by ddpg.py from    *)
(* modules whose code is not part of the sources; what the model needs of  *)
(* them is taken from the written specification and marked so.             *)
(***************************************************************************)
EXTENDS Integers, Sequences, FiniteSets, TLC

(***************************************************************************)
(* Bounds of the model.  buffer_size and batch_size are 10000 and 128 in   *)
(* DDPG.__init__ (lines 49-50); the model keeps their names and their      *)
(* order (buffer_size > batch_size) and scales them down.                  *)
(***************************************************************************)
buffer_size == 2
batch_size == 1
\* step calls explored
MaxSteps == 3
\* noise samples explored between two resets
MaxNoise == 1

(***************************************************************************)
(* Exact rational arithmetic.                                              *)
(***************************************************************************)
Abs(x) == IF x < 0 THEN -x ELSE x

RECURSIVE GCD(_, _)
GCD(a, b) == IF b = 0 THEN a ELSE GCD(b, a % b)

R(n, d) ==
    LET s == IF d < 0 THEN -1 ELSE 1
        g == GCD(Abs(n), Abs(d))
    IN  [n |-> (s * n) \div g, d |-> (s * d) \div g]

RInt(i) == [n |-> i, d |-> 1]
RAdd(a, b) == R(a.n * b.d + b.n * a.d, a.d * b.d)
RSub(a, b) == R(a.n * b.d - b.n * a.d, a.d * b.d)
RMul(a, b) == R(a.n * b.n, a.d * b.d)
RDiv(a, b) == R(a.n * b.d, a.d * b.n)
RLe(a, b) == a.n * b.d <= b.n * a.d
RLt(a, b) == a.n * b.d < b.n * a.d
RMax(a, b) == IF RLe(a, b) THEN b ELSE a
RMin(a, b) == IF RLe(a, b) THEN a ELSE b
Zero == RInt(0)
One == RInt(1)

\* elementwise operations on vectors of one length
VAdd(u, v) == [i \in 1..Len(u) |-> RAdd(u[i], v[i])]
VSub(u, v) == [i \in 1..Len(u) |-> RSub(u[i], v[i])]
VDiv(u, v) == [i \in 1..Len(u) |-> RDiv(u[i], v[i])]
VScale(c, v) == [i \in 1..Len(v) |-> RMul(c, v[i])]
VLe(u, v) == \A i \in 1..Len(u) : RLe(u[i], v[i])
Const(c, k) == [i \in 1..k |-> c]

(***************************************************************************)
(* The state.                                                              *)
(***************************************************************************)
VARIABLES
    task,            \* the environment's declared spaces (self.task)
    actor_local,     \* weights of self.actor_local.model
    actor_target,    \* weights of self.actor_target.model
    critic_local,    \* weights of self.critic_local.model
    critic_target,   \* weights of self.critic_target.model
    noise,           \* state vector of self.noise
    memory,          \* contents of self.memory, oldest first
    pc,              \* position of the running call; "idle" between calls
    experiences,     \* learn's batch
    Q_targets_next,  \* learn's local of that name
    Q_targets,       \* learn's local of that name
    ret,             \* what the last completed call returned
    raised,          \* the exception that ended the last call, or "none"
    call,            \* history: the running call and the weights it was entered with
    trace,           \* history: what the running learn call read and wrote, in order
    inserted,        \* history: the normalised transition of every step call
    noise_samples,   \* history: noise samples since the last reset
    step_calls,      \* history: number of step calls
    sample_calls,    \* history: number of memory.sample calls
    learn_calls      \* history: number of learn calls

vars == <<task, actor_local, actor_target, critic_local, critic_target, noise,
          memory, pc, experiences, Q_targets_next, Q_targets, ret, raised,
          call, trace, inserted, noise_samples, step_calls,
          sample_calls, learn_calls>>

nets == <<actor_local, actor_target, critic_local, critic_target>>
locals == <<experiences, Q_targets_next, Q_targets>>
history == <<inserted, noise_samples, step_calls, sample_calls, learn_calls>>

None == [kind |-> "None"]

(***************************************************************************)
(* The environment (self.task) is an external collaborator: it declares    *)
(* the bounds of its observation and action spaces.  MountainCar holds the *)
(* bounds of the continuous mountain-car task the agent is written for.    *)
(***************************************************************************)
MountainCar ==
    [state_low   |-> <<R(-6, 5), R(-7, 100)>>,
     state_high  |-> <<R(3, 5), R(7, 100)>>,
     action_low  |-> <<RInt(-1)>>,
     action_high |-> <<RInt(1)>>]

\* DDPG.__init__, lines 14-21
state_size == Len(task.state_low)
state_low == task.state_low
state_high == task.state_high
state_range == VSub(state_high, state_low)
action_size == Len(task.action_low)
action_low == task.action_low
action_high == task.action_high

\* DDPG.__init__, lines 42-44 and 54-56
exploration_mu == RInt(0)
exploration_theta == R(5, 100)
exploration_sigma == R(25, 100)
gamma == R(999, 1000)
tau_actor == R(1, 10)
tau_critic == R(5, 10)

\* Faulty variant of preprocess_state: the factor 2 is left out.
preprocess_state_Unscaled(state) ==
    VSub(VDiv(VSub(state, state_low), state_range), Const(One, Len(state)))

(***************************************************************************)
(* preprocess_state, line 64:                                              *)
(*     (state - self.state_low) / self.state_range * 2 - 1                 *)
(***************************************************************************)
preprocess_state(state) ==
    VSub(VScale(RInt(2), VDiv(VSub(state, state_low), state_range)),
         Const(One, Len(state)))

(***************************************************************************)
(* numpy's elementwise arithmetic on two one-dimensional arrays: equal     *)
(* lengths combine elementwise, a length of one is broadcast, any other    *)
(* pair of lengths raises ValueError.                                      *)
(***************************************************************************)
Broadcastable(u, v) == Len(u) = Len(v) \/ Len(u) = 1 \/ Len(v) = 1

BLen(u, v) == IF Len(u) >= Len(v) THEN Len(u) ELSE Len(v)

BAt(u, i) == IF Len(u) = 1 THEN u[1] ELSE u[i]

Shapes(weights) == [i \in 1..Len(weights) |-> Len(weights[i])]

\* Faulty variant of Interpolate: tau weighs the target instead of the local.
Interpolate_Swapped(tau, local, target) ==
    [i \in 1..BLen(local, target) |->
        RAdd(RMul(tau, BAt(target, i)), RMul(RSub(One, tau), BAt(local, i)))]

\* tau * local + (1 - tau) * target on one pair of tensors, line 132
Interpolate(tau, local, target) ==
    [i \in 1..BLen(local, target) |->
        RAdd(RMul(tau, BAt(local, i)), RMul(RSub(One, tau), BAt(target, i)))]

(***************************************************************************)
(* soft_update, lines 124-133, as a function of the two weight lists: the  *)
(* exception it raises ("none" when it returns) and the weights of the     *)
(* target model afterwards.  set_weights (Keras) rejects a list whose      *)
(* shapes are not the model's and then writes nothing.                     *)
(***************************************************************************)
soft_update(local_weights, target_weights, tau) ==
    IF Len(local_weights) # Len(target_weights)
    THEN [raised |-> "AssertionError", target |-> target_weights]
    ELSE IF \E i \in 1..Len(local_weights) :
                ~Broadcastable(local_weights[i], target_weights[i])
    THEN [raised |-> "ValueError", target |-> target_weights]
    ELSE LET new_weights ==
                 [i \in 1..Len(local_weights) |->
                     Interpolate(tau, local_weights[i], target_weights[i])]
         IN  IF Shapes(new_weights) # Shapes(target_weights)
             THEN [raised |-> "ValueError", target |-> target_weights]
             ELSE [raised |-> "none", target |-> new_weights]

(***************************************************************************)
(* The replay store (ReplayBuffer: add, sample, len), from the written     *)
(* specification: a ring of at most buffer_size transitions that evicts    *)
(* the oldest one when full; sample draws batch_size of them               *)
(* independently.                                                          *)
(***************************************************************************)
Experience(state, action, reward, next_state, done) ==
    [state |-> state, action |-> action, reward |-> reward,
     next_state |-> next_state, done |-> done]

MemoryAdd(m, e) ==
    IF Len(m) = buffer_size THEN Append(Tail(m), e) ELSE Append(m, e)

MemorySamples(m) ==
    {[i \in 1..batch_size |-> m[idx[i]]] : idx \in [1..batch_size -> 1..Len(m)]}

(***************************************************************************)
(* The exploration noise (OUNoise: reset, sample), from the written        *)
(* specification: x := x + theta * (mu - x) + sigma * normal, with the     *)
(* standard-normal draw an input of the model.                             *)
(***************************************************************************)
NoiseReset == Const(exploration_mu, action_size)

NoiseSample(x, normal) ==
    VAdd(x, VAdd(VScale(exploration_theta, VSub(Const(exploration_mu, Len(x)), x)),
                 VScale(exploration_sigma, normal)))

(***************************************************************************)
(* The function approximators (Actor, Critic), from the written            *)
(* specification: a parameter list per network, a forward pass whose       *)
(* result the model takes as an input, and a training step that leaves the *)
(* trained network with some weights of the same shapes.                   *)
(***************************************************************************)
Weights ==
    {<< <<RInt(1), RInt(0)>>, <<RInt(2)>> >>,
     << <<RInt(-1), RInt(3)>>, <<RInt(0)>> >>}

\* values a critic's forward pass may return
QValues == {RInt(-3), RInt(7)}

\* action vectors an actor's forward pass may return
ActorOutputs == {Const(RInt(-30), action_size), Const(RInt(-10), action_size),
                 Const(R(1, 2), action_size), Const(RInt(10), action_size)}

\* standard-normal draws of the noise process
NormalDraws == {Const(RInt(-8), action_size), Const(R(-1, 2), action_size),
                Const(RInt(0), action_size), Const(RInt(8), action_size)}

\* the draws explored together with the learning steps
FewDraws == {Const(RInt(8), action_size)}

\* np.clip, elementwise
Clip(v, lo, hi) == [i \in 1..Len(v) |-> RMin(RMax(v[i], lo[i]), hi[i])]

(***************************************************************************)
(* After construction (DDPG.__init__): the local networks are initialised  *)
(* by their constructors, the targets are set to the locals' weights       *)
(* (lines 35-39), the noise process starts at its mean and the replay      *)
(* store is empty.                                                         *)
(***************************************************************************)
NoCall == [op |-> "none"]

Constructed(t) ==
    /\ task = t
    /\ actor_local \in Weights
    /\ critic_local \in Weights
    /\ critic_target = critic_local
    /\ actor_target = actor_local
    /\ noise = Const(exploration_mu, Len(t.action_low))
    /\ memory = <<>>
    /\ pc = "idle"
    /\ experiences = <<>>
    /\ Q_targets_next = <<>>
    /\ Q_targets = <<>>
    /\ ret = None
    /\ raised = "none"
    /\ call = NoCall
    /\ trace = <<>>
    /\ inserted = <<>>
    /\ noise_samples = 0
    /\ step_calls = 0
    /\ sample_calls = 0
    /\ learn_calls = 0

Init == Constructed(MountainCar)

\* raw environment states and transitions handed to the agent
RawStates == {state_low, state_high}

StepInputs ==
    {[state |-> state_low, action |-> action_high, reward |-> RInt(-1),
      next_state |-> state_high, done |-> FALSE],
     [state |-> state_high, action |-> action_low, reward |-> RInt(100),
      next_state |-> state_low, done |-> TRUE]}

(***************************************************************************)
(* reset, lines 58-60: resets the noise process and returns the            *)
(* environment's initial state.                                            *)
(***************************************************************************)
Reset ==
    /\ pc = "idle"
    /\ noise' = NoiseReset
    /\ noise_samples' = 0
    /\ \E s \in RawStates : ret' = [kind |-> "state", state |-> s]
    /\ raised' = "none"
    /\ call' = NoCall
    /\ UNCHANGED <<task, nets, memory, pc, locals, trace, inserted,
                   step_calls, sample_calls, learn_calls>>

\* Faulty variant of act: the sum is returned unclipped.
Act_NoClip(state, pure_action, normal) ==
    /\ pc = "idle"
    /\ noise_samples < MaxNoise
    /\ LET sample == NoiseSample(noise, normal)
           action == VAdd(VScale(R(2, 10), pure_action), sample)
       IN  /\ noise' = sample
           /\ ret' = [kind |-> "act", action |-> action,
                      pure_action |-> pure_action]
    /\ noise_samples' = noise_samples + 1
    /\ raised' = "none"
    /\ call' = NoCall
    /\ UNCHANGED <<task, nets, memory, pc, locals, trace, inserted,
                   step_calls, sample_calls, learn_calls>>

(***************************************************************************)
(* act, lines 77-84.  The local actor's prediction for the normalised      *)
(* state is an input of the model.                                         *)
(***************************************************************************)
Act(state, pure_action, normal) ==
    /\ pc = "idle"
    /\ noise_samples < MaxNoise
    /\ LET sample == NoiseSample(noise, normal)
           action == Clip(VAdd(VScale(R(2, 10), pure_action), sample),
                          action_low, action_high)
       IN  /\ noise' = sample
           /\ ret' = [kind |-> "act", action |-> action,
                      pure_action |-> pure_action]
    /\ noise_samples' = noise_samples + 1
    /\ raised' = "none"
    /\ call' = NoCall
    /\ UNCHANGED <<task, nets, memory, pc, locals, trace, inserted,
                   step_calls, sample_calls, learn_calls>>

\* Faulty variant of step: it learns from batch_size transitions on.
Step_GateAtBatchSize(state, action, reward, next_state, done) ==
    /\ pc = "idle"
    /\ step_calls < MaxSteps
    /\ LET e == Experience(preprocess_state(state), action, reward,
                           preprocess_state(next_state), done)
       IN  /\ memory' = MemoryAdd(memory, e)
           /\ inserted' = Append(inserted, e)
    /\ pc' = IF Len(memory') >= batch_size THEN "sample" ELSE "idle"
    /\ step_calls' = step_calls + 1
    /\ ret' = None
    /\ raised' = "none"
    /\ call' = [op |-> "step"]
    /\ UNCHANGED <<task, nets, noise, locals, trace, noise_samples,
                   sample_calls, learn_calls>>

\* Faulty variant of step: the length is tested before the transition is stored.
Step_GateBeforeAdd(state, action, reward, next_state, done) ==
    /\ pc = "idle"
    /\ step_calls < MaxSteps
    /\ LET e == Experience(preprocess_state(state), action, reward,
                           preprocess_state(next_state), done)
       IN  /\ memory' = MemoryAdd(memory, e)
           /\ inserted' = Append(inserted, e)
    /\ pc' = IF Len(memory) > batch_size THEN "sample" ELSE "idle"
    /\ step_calls' = step_calls + 1
    /\ ret' = None
    /\ raised' = "none"
    /\ call' = [op |-> "step"]
    /\ UNCHANGED <<task, nets, noise, locals, trace, noise_samples,
                   sample_calls, learn_calls>>

\* Faulty variant of step: the transition is stored twice.
Step_StoresTwice(state, action, reward, next_state, done) ==
    /\ pc = "idle"
    /\ step_calls < MaxSteps
    /\ LET e == Experience(preprocess_state(state), action, reward,
                           preprocess_state(next_state), done)
       IN  /\ memory' = MemoryAdd(MemoryAdd(memory, e), e)
           /\ inserted' = Append(inserted, e)
    /\ pc' = IF Len(memory') > batch_size THEN "sample" ELSE "idle"
    /\ step_calls' = step_calls + 1
    /\ ret' = None
    /\ raised' = "none"
    /\ call' = [op |-> "step"]
    /\ UNCHANGED <<task, nets, noise, locals, trace, noise_samples,
                   sample_calls, learn_calls>>

(***************************************************************************)
(* step, lines 66-73: normalise both states, store the transition, and go  *)
(* on to sample and learn if the store then holds more than batch_size     *)
(* transitions; otherwise return.                                          *)
(***************************************************************************)
Step(state, action, reward, next_state, done) ==
    /\ pc = "idle"
    /\ step_calls < MaxSteps
    /\ LET e == Experience(preprocess_state(state), action, reward,
                           preprocess_state(next_state), done)
       IN  /\ memory' = MemoryAdd(memory, e)
           /\ inserted' = Append(inserted, e)
    /\ pc' = IF Len(memory') > batch_size THEN "sample" ELSE "idle"
    /\ step_calls' = step_calls + 1
    /\ ret' = None
    /\ raised' = "none"
    /\ call' = [op |-> "step"]
    /\ UNCHANGED <<task, nets, noise, locals, trace, noise_samples,
                   sample_calls, learn_calls>>

(***************************************************************************)
(* step, line 74: experiences = self.memory.sample(); line 75 then enters  *)
(* learn, lines 86-100, which drops the None entries of the batch.         *)
(***************************************************************************)
Sample ==
    /\ pc = "sample"
    /\ \E batch \in MemorySamples(memory) :
           experiences' = SelectSeq(batch, LAMBDA e : e # None)
    /\ sample_calls' = sample_calls + 1
    /\ learn_calls' = learn_calls + 1
    /\ call' = [op |-> "learn", actor_local |-> actor_local,
                actor_target |-> actor_target, critic_local |-> critic_local,
                critic_target |-> critic_target]
    /\ trace' = <<>>
    /\ pc' = "targets"
    /\ UNCHANGED <<task, nets, noise, memory, Q_targets_next, Q_targets, ret,
                   raised, inserted, noise_samples, step_calls>>

\* one entry of the history of a learn call
Event(ev, net, w) == [ev |-> ev, net |-> net, w |-> w]

\* dones as uint8 (line 98) and the factor (1 - dones) of line 109
NotDone(done) == RInt(1 - (IF done THEN 1 ELSE 0))

\* Faulty variant of TDTarget: the factor (1 - dones) is left out.
TDTarget_NoDoneMask(reward, q_next, done) ==
    RAdd(reward, RMul(gamma, q_next))

\* line 109: rewards + self.gamma * Q_targets_next * (1 - dones), one row
TDTarget(reward, q_next, done) ==
    RAdd(reward, RMul(RMul(gamma, q_next), NotDone(done)))

(***************************************************************************)
(* learn, lines 102-109: the target actor and the target critic predict    *)
(* for the next states (the predicted values are inputs of the model) and  *)
(* the TD targets are computed.                                            *)
(***************************************************************************)
LearnTargets ==
    /\ pc = "targets"
    /\ \E q \in [1..Len(experiences) -> QValues] :
           /\ Q_targets_next' = q
           /\ Q_targets' = [i \in 1..Len(experiences) |->
                  TDTarget(experiences[i].reward, q[i], experiences[i].done)]
    /\ trace' = trace \o <<Event("predict", "actor_target", actor_target),
                           Event("predict", "critic_target", critic_target)>>
    /\ pc' = "train_critic"
    /\ UNCHANGED <<task, nets, noise, memory, experiences, ret, raised, call,
                   history>>

\* Faulty variant of the critic's training step: the target critic is
\* trained.
TrainCritic_OnTarget ==
    /\ pc = "train_critic"
    /\ critic_target' \in Weights
    /\ trace' = Append(trace, Event("train", "critic_local", critic_local))
    /\ pc' = "action_gradients"
    /\ UNCHANGED <<task, actor_local, actor_target, critic_local, noise,
                   memory, locals, ret, raised, call, history>>

(***************************************************************************)
(* learn, line 110: one training step of the local critic towards          *)
(* Q_targets.                                                              *)
(***************************************************************************)
TrainCritic ==
    /\ pc = "train_critic"
    /\ critic_local' \in Weights
    /\ trace' = Append(trace, Event("train", "critic_local", critic_local'))
    /\ pc' = "action_gradients"
    /\ UNCHANGED <<task, actor_local, actor_target, critic_target, noise,
                   memory, locals, ret, raised, call, history>>

\* Faulty variant of the action gradients: taken from the local critic as it
\* was before its training step.
ActionGradients_BeforeTraining ==
    /\ pc = "action_gradients"
    /\ trace' = Append(trace, Event("gradients", "critic_local",
                                    call.critic_local))
    /\ pc' = "train_actor"
    /\ UNCHANGED <<task, nets, noise, memory, locals, ret, raised, call,
                   history>>

(***************************************************************************)
(* learn, lines 113-114: the action gradients, from the local critic as it *)
(* is at this point.                                                       *)
(***************************************************************************)
ActionGradients ==
    /\ pc = "action_gradients"
    /\ trace' = Append(trace, Event("gradients", "critic_local", critic_local))
    /\ pc' = "train_actor"
    /\ UNCHANGED <<task, nets, noise, memory, locals, ret, raised, call,
                   history>>

(***************************************************************************)
(* learn, line 116: one training step of the local actor.                  *)
(***************************************************************************)
TrainActor ==
    /\ pc = "train_actor"
    /\ actor_local' \in Weights
    /\ trace' = Append(trace, Event("train", "actor_local", actor_local'))
    /\ pc' = "soft_update_critic"
    /\ UNCHANGED <<task, actor_target, critic_local, critic_target, noise,
                   memory, locals, ret, raised, call, history>>

(***************************************************************************)
(* learn, lines 119-120: soft_update of the critic target.                 *)
(***************************************************************************)
SoftUpdateCritic ==
    /\ pc = "soft_update_critic"
    /\ LET r == soft_update(critic_local, critic_target, tau_critic)
       IN  /\ critic_target' = r.target
           /\ raised' = r.raised
           /\ pc' = IF r.raised = "none" THEN "soft_update_actor" ELSE "raised"
           /\ trace' = IF r.raised = "none"
                       THEN Append(trace, Event("soft_update", "critic_target",
                                                r.target))
                       ELSE trace
    /\ UNCHANGED <<task, actor_local, actor_target, critic_local, noise,
                   memory, locals, ret, call, history>>

(***************************************************************************)
(* learn, lines 121-122: soft_update of the actor target; learn returns.   *)
(***************************************************************************)
SoftUpdateActor ==
    /\ pc = "soft_update_actor"
    /\ LET r == soft_update(actor_local, actor_target, tau_actor)
       IN  /\ actor_target' = r.target
           /\ raised' = r.raised
           /\ pc' = IF r.raised = "none" THEN "learned" ELSE "raised"
           /\ trace' = IF r.raised = "none"
                       THEN Append(trace, Event("soft_update", "actor_target",
                                                r.target))
                       ELSE trace
    /\ UNCHANGED <<task, actor_local, critic_local, critic_target, noise,
                   memory, locals, ret, call, history>>

(***************************************************************************)
(* step returns after learn (line 75); learn's locals go out of scope.     *)
(***************************************************************************)
StepReturn ==
    /\ pc = "learned"
    /\ pc' = "idle"
    /\ experiences' = <<>>
    /\ Q_targets_next' = <<>>
    /\ Q_targets' = <<>>
    /\ trace' = <<>>
    /\ call' = NoCall
    /\ UNCHANGED <<task, nets, noise, memory, ret, raised, history>>

Next ==
    \/ Reset
    \/ \E state \in RawStates, pure_action \in ActorOutputs,
          normal \in FewDraws : Act(state, pure_action, normal)
    \/ \E x \in StepInputs :
          Step(x.state, x.action, x.reward, x.next_state, x.done)
    \/ Sample
    \/ LearnTargets
    \/ TrainCritic
    \/ ActionGradients
    \/ TrainActor
    \/ SoftUpdateCritic
    \/ SoftUpdateActor
    \/ StepReturn

Spec == Init /\ [][Next]_vars

(***************************************************************************)
(* The agent's methods called on their own, over wider inputs.             *)
(***************************************************************************)
\* environments: the mountain car, a pendulum, a one-dimensional sensor
Tasks ==
    {MountainCar,
     [state_low   |-> <<RInt(-1), RInt(-1), RInt(-8)>>,
      state_high  |-> <<RInt(1), RInt(1), RInt(8)>>,
      action_low  |-> <<RInt(-2)>>,
      action_high |-> <<RInt(2)>>],
     [state_low   |-> <<RInt(0)>>,
      state_high  |-> <<RInt(255)>>,
      action_low  |-> <<RInt(0)>>,
      action_high |-> <<R(1, 2)>>]}

\* per component: the bounds, points between them and points outside them
Fractions == {R(-1, 2), RInt(0), R(1, 3), R(1, 2), RInt(1), R(5, 4)}

StateInputs ==
    {[i \in 1..state_size |->
         RAdd(state_low[i], RMul(f[i], state_range[i]))] :
     f \in [1..state_size -> Fractions]}

(***************************************************************************)
(* A call of preprocess_state (lines 62-64) from outside.                  *)
(***************************************************************************)
PreprocessState(state) ==
    /\ pc = "idle"
    /\ call = NoCall
    /\ call' = [op |-> "preprocess_state", state |-> state]
    /\ ret' = [kind |-> "state", state |-> preprocess_state(state)]
    /\ UNCHANGED <<task, nets, noise, memory, pc, locals, raised, trace,
                   history>>

InitTasks == \E t \in Tasks : Constructed(t)

NextPre == \E state \in StateInputs : PreprocessState(state)

SpecPre == InitTasks /\ [][NextPre]_vars

(***************************************************************************)
(* reset and act over every environment, actor output and noise draw.      *)
(***************************************************************************)
NextAct ==
    \/ Reset
    \/ \E state \in RawStates, pure_action \in ActorOutputs,
          normal \in NormalDraws : Act(state, pure_action, normal)

SpecAct == InitTasks /\ [][NextAct]_vars

(***************************************************************************)
(* A call of soft_update (lines 124-133) from outside, on two models of    *)
(* any parameter lists and with any tau.  The two models stand in the      *)
(* critic's places.  Within one model the tensors either all have one      *)
(* shape or not, and the two models agree in that: np.array builds a       *)
(* two-dimensional array from the first kind of list and an array of       *)
(* arrays from the second, and the arithmetic of line 132 is elementwise   *)
(* on tensors when both arrays are of one kind.                            *)
(***************************************************************************)
SoftValues == {RInt(-4), RInt(6)}

SoftTensors == UNION {[1..k -> SoftValues] : k \in {1, 2}}

SoftWeights == UNION {[1..n -> SoftTensors] : n \in {1, 2}}

Regular(weights) ==
    \A i, j \in 1..Len(weights) : Len(weights[i]) = Len(weights[j])

Taus == {RInt(0), tau_actor, tau_critic, RInt(1)}

InitSoft ==
    /\ task = MountainCar
    /\ actor_local \in Weights
    /\ actor_target = actor_local
    /\ critic_local \in SoftWeights
    /\ critic_target \in SoftWeights
    /\ Regular(critic_local) <=> Regular(critic_target)
    /\ noise = Const(exploration_mu, Len(MountainCar.action_low))
    /\ memory = <<>>
    /\ pc = "idle"
    /\ experiences = <<>>
    /\ Q_targets_next = <<>>
    /\ Q_targets = <<>>
    /\ ret = None
    /\ raised = "none"
    /\ call = NoCall
    /\ trace = <<>>
    /\ inserted = <<>>
    /\ noise_samples = 0
    /\ step_calls = 0
    /\ sample_calls = 0
    /\ learn_calls = 0

SoftUpdate(tau) ==
    /\ pc = "idle"
    /\ call = NoCall
    /\ call' = [op |-> "soft_update", local |-> critic_local,
                target |-> critic_target, tau |-> tau]
    /\ LET r == soft_update(critic_local, critic_target, tau)
       IN  /\ critic_target' = r.target
           /\ raised' = r.raised
    /\ ret' = None
    /\ UNCHANGED <<task, actor_local, actor_target, critic_local, noise,
                   memory, pc, locals, trace, history>>

NextSoft == \E tau \in Taus : SoftUpdate(tau)

SpecSoft == InitSoft /\ [][NextSoft]_vars

(***************************************************************************)
(* Properties.                                                             *)
(***************************************************************************)
Min(a, b) == IF a <= b THEN a ELSE b

InLearn ==
    pc \in {"targets", "train_critic", "action_gradients", "train_actor",
            "soft_update_critic", "soft_update_actor", "learned"}

\* tau * l + (1 - tau) * t for every element of every parameter
Mixed(tau, l, t) ==
    [i \in 1..Len(t) |-> [j \in 1..Len(t[i]) |->
        RAdd(RMul(tau, l[i][j]), RMul(RSub(One, tau), t[i][j]))]]

(***************************************************************************)
(* C1.  A step call stores its transition first and goes on to sample and  *)
(* learn if and only if the store then holds more than batch_size          *)
(* transitions.  So a batch is only ever sampled, and learn only ever      *)
(* runs, with more than batch_size transitions stored, and during the      *)
(* first batch_size step calls nothing is sampled, learn is not called and *)
(* every network still has the weights it was constructed with (the        *)
(* targets equal the locals).                                              *)
(***************************************************************************)
C1_LearnOnlyAboveBatchSize ==
    /\ call.op = "step" =>
          /\ Len(memory) >= 1
          /\ memory[Len(memory)] = inserted[Len(inserted)]
          /\ pc \in {"sample", "idle"}
          /\ pc = "sample" <=> Len(memory) > batch_size
    /\ (pc = "sample" \/ InLearn) => Len(memory) > batch_size
    /\ step_calls <= batch_size =>
          /\ sample_calls = 0
          /\ learn_calls = 0
          /\ pc = "idle"
          /\ actor_target = actor_local
          /\ critic_target = critic_local

\* a step call whose store has just passed batch_size goes on to sample
C1_Witness ==
    /\ call.op = "step"
    /\ pc = "sample"
    /\ Len(memory) = batch_size + 1
    /\ step_calls = batch_size + 1

(***************************************************************************)
(* C2.  The replay store never holds more than buffer_size transitions;    *)
(* it holds the most recent min(N, buffer_size) of the N transitions       *)
(* stored so far, in the order they were stored: once N exceeds            *)
(* buffer_size its length is buffer_size and the oldest N - buffer_size    *)
(* are gone.                                                               *)
(***************************************************************************)
C2_ReplayKeepsMostRecent ==
    LET N == Len(inserted)
    IN  /\ Len(memory) <= buffer_size
        /\ Len(memory) = Min(N, buffer_size)
        /\ memory = SubSeq(inserted, N - Len(memory) + 1, N)

\* more transitions stored than fit, and the first one stored differs from
\* the oldest one kept
C2_Witness ==
    /\ Len(inserted) > buffer_size
    /\ Len(memory) = buffer_size
    /\ memory[1] # inserted[1]

(***************************************************************************)
(* C3.  The noisy action act returns lies within [action_low, action_high] *)
(* in every component, whatever the actor's output and the noise sample,   *)
(* and act raises nothing.                                                 *)
(***************************************************************************)
C3_ActionWithinBounds ==
    ret.kind = "act" =>
        /\ raised = "none"
        /\ Len(ret.action) = action_size
        /\ \A i \in 1..action_size :
               /\ RLe(action_low[i], ret.action[i])
               /\ RLe(ret.action[i], action_high[i])

\* act has returned the upper bound for a damped output plus noise above it
C3_Witness ==
    /\ ret.kind = "act"
    /\ RLt(action_high[1],
           RAdd(RMul(R(1, 5), ret.pure_action[1]), noise[1]))
    /\ ret.action[1] = action_high[1]

(***************************************************************************)
(* C4.  Once learn has computed its TD targets, the target of every        *)
(* transition of the batch with done = true is that transition's reward,   *)
(* whatever the target critic predicted for its next state, and the target *)
(* of every other transition is reward + gamma * the value the target      *)
(* critic predicted; the predictions were made by the target actor and the *)
(* target critic.                                                          *)
(***************************************************************************)
C4_TerminalTargetIsReward ==
    (InLearn /\ pc # "targets") =>
        /\ Len(Q_targets) = Len(experiences)
        /\ \A i \in 1..Len(experiences) :
               Q_targets[i] =
                   IF experiences[i].done
                   THEN experiences[i].reward
                   ELSE RAdd(experiences[i].reward,
                             RMul(gamma, Q_targets_next[i]))
        /\ trace[1] = Event("predict", "actor_target", call.actor_target)
        /\ trace[2] = Event("predict", "critic_target", call.critic_target)

\* a terminal transition whose next state the target critic valued at 7
C4_Witness ==
    /\ pc = "train_critic"
    /\ \E i \in 1..Len(experiences) :
           /\ experiences[i].done
           /\ Q_targets_next[i] = RInt(7)
           /\ Q_targets[i] = RInt(100)

(***************************************************************************)
(* C5.  soft_update on a local and a target model of the same shapes       *)
(* raises nothing, sets every element of every target parameter to         *)
(* tau * local + (1 - tau) * target and leaves the local model as it was;  *)
(* with tau = 1 the target then equals the local model, with tau = 0 the   *)
(* target is what it was.                                                  *)
(***************************************************************************)
C5_SoftUpdateInterpolates ==
    (call.op = "soft_update" /\ Shapes(call.local) = Shapes(call.target)) =>
        /\ raised = "none"
        /\ critic_local = call.local
        /\ critic_target = Mixed(call.tau, call.local, call.target)
        /\ call.tau = One => critic_target = critic_local
        /\ call.tau = Zero => critic_target = call.target

\* tau = 1 on two different models of the same shapes
C5_Witness ==
    /\ call.op = "soft_update"
    /\ call.tau = One
    /\ Shapes(call.local) = Shapes(call.target)
    /\ call.local # call.target
    /\ critic_target = call.local

(***************************************************************************)
(* C6.  soft_update on a local and a target model whose parameter lists    *)
(* differ in a shape fails, and leaves the target's weights as they were.  *)
(***************************************************************************)
C6_ShapeMismatchIsFatal ==
    (call.op = "soft_update" /\ Shapes(call.local) # Shapes(call.target)) =>
        /\ raised # "none"
        /\ critic_target = call.target

(***************************************************************************)
(* C7.  For a state within [state_low, state_high] in every component      *)
(* preprocess_state returns a vector within [-1, 1] in every component,    *)
(* -1 where the state is at its lower bound and 1 where it is at its upper *)
(* bound.                                                                  *)
(***************************************************************************)
C7_NormalisedWithinUnit ==
    (/\ call.op = "preprocess_state"
     /\ VLe(state_low, call.state)
     /\ VLe(call.state, state_high)) =>
        /\ Len(ret.state) = state_size
        /\ \A i \in 1..state_size :
               /\ RLe(RInt(-1), ret.state[i])
               /\ RLe(ret.state[i], RInt(1))
               /\ call.state[i] = state_low[i] => ret.state[i] = RInt(-1)
               /\ call.state[i] = state_high[i] => ret.state[i] = RInt(1)

\* the upper bound itself, normalised to 1 in every component
C7_Witness ==
    /\ call.op = "preprocess_state"
    /\ call.state = state_high
    /\ ret.state = Const(One, state_size)

(***************************************************************************)
(* C8.  Until learn first runs the targets equal the locals, as            *)
(* constructed.  From then on the target actor's weights change only in    *)
(* learn's soft update of the actor and the target critic's only in its    *)
(* soft update of the critic; the critic's training step changes only the  *)
(* local critic, the actor's only the local actor; reset, act and the part *)
(* of step up to the sampling change no network.                           *)
(***************************************************************************)
C8_TargetsWrittenOnlyBySoftUpdate ==
    /\ [](learn_calls = 0 =>
             (actor_target = actor_local /\ critic_target = critic_local))
    /\ [][/\ actor_target' # actor_target => pc = "soft_update_actor"
          /\ critic_target' # critic_target => pc = "soft_update_critic"
          /\ actor_local' # actor_local => pc = "train_actor"
          /\ critic_local' # critic_local => pc = "train_critic"
          /\ pc \in {"idle", "sample"} => UNCHANGED nets]_vars

\* after a learn call that moved both targets away from the locals, act
\* has run
C8_Witness ==
    /\ learn_calls >= 1
    /\ pc = "idle"
    /\ ret.kind = "act"
    /\ actor_target # actor_local
    /\ critic_target # critic_local

(***************************************************************************)
(* C9.  A learn call works in this order, each step once: the target actor *)
(* and the target critic, as they were when the call began, predict for    *)
(* the TD targets; the local critic is trained; the action gradients are   *)
(* taken from the local critic as trained; the local actor is trained; the *)
(* critic target is soft-updated with tau_critic; the actor target is      *)
(* soft-updated with tau_actor.                                            *)
(***************************************************************************)
LearnOrder ==
    <<Event("predict", "actor_target", call.actor_target),
      Event("predict", "critic_target", call.critic_target),
      Event("train", "critic_local", critic_local),
      Event("gradients", "critic_local", critic_local),
      Event("train", "actor_local", actor_local),
      Event("soft_update", "critic_target",
            Mixed(tau_critic, critic_local, call.critic_target)),
      Event("soft_update", "actor_target",
            Mixed(tau_actor, actor_local, call.actor_target))>>

LearnProgress ==
    CASE pc = "targets" -> 0
      [] pc = "train_critic" -> 2
      [] pc = "action_gradients" -> 3
      [] pc = "train_actor" -> 4
      [] pc = "soft_update_critic" -> 5
      [] pc = "soft_update_actor" -> 6
      [] pc = "learned" -> 7
      [] OTHER -> 0

C9_LearnOrder ==
    /\ InLearn => trace = SubSeq(LearnOrder, 1, LearnProgress)
    /\ pc = "learned" =>
          /\ critic_target = trace[6].w
          /\ actor_target = trace[7].w
          /\ actor_local = trace[5].w
          /\ critic_local = trace[3].w

\* a learn call that changed the local critic has finished
C9_Witness ==
    /\ pc = "learned"
    /\ Len(trace) = 7
    /\ critic_local # call.critic_local
    /\ trace[4].w = critic_local

(***************************************************************************)
(* C10.  With buffer_size > batch_size, learn first runs in step call      *)
(* number batch_size + 1 and then once in every step call: the store's     *)
(* length never decreases, also when it is full and evicts.                *)
(***************************************************************************)
C10_LearnEveryStepAfterWarmup ==
    /\ [](/\ sample_calls = learn_calls
          /\ learn_calls =
                (IF step_calls > batch_size THEN step_calls - batch_size ELSE 0)
                - (IF pc = "sample" THEN 1 ELSE 0))
    /\ [][Len(memory') >= Len(memory)]_vars

\* a step call on a full store has evicted, learnt and returned
C10_Witness ==
    /\ buffer_size > batch_size
    /\ step_calls > buffer_size
    /\ Len(memory) = buffer_size
    /\ pc = "idle"
    /\ learn_calls = step_calls - batch_size

=============================================================================
